---- MODULE Spec2Model ----
(***************************************************************************)
(* Ukamba Microcredito: the loan calculator (app/services/juros.py) and    *)
(* the credit / payment ledger kept by app/routes/creditos.py and          *)
(* app/routes/pagamentos.py, with the reports that display it and the      *)
(* authentication that guards it (app/auth.py).                            *)
(*                                                                         *)
(* Money is an integer number of thousandths of a kwanza (1 Kz = 1000), so *)
(* that Python's round(x, 2) is a real conversion: it maps an amount to    *)
(* the nearest multiple of 10.  An amount that is not a whole number of    *)
(* thousandths (a total before rounding, an instalment) is a fraction      *)
(* [num, den].  Rates are whole percents (0.09 is 9).  A date is the       *)
(* tuple <<year, month, day>>.                                             *)
(***************************************************************************)
EXTENDS Integers, Sequences, FiniteSets, TLC

(***************************************************************************)
(* Bounds of the model.                                                    *)
(***************************************************************************)
MaxCreditos == 1
MaxPagamentos == 2

(***************************************************************************)
(* Calendar dates (datetime.date) and their order.                         *)
(***************************************************************************)
bissexto(ano) == (ano % 4 = 0 /\ ano % 100 # 0) \/ ano % 400 = 0

dias_no_mes(ano, mes) ==
    IF mes = 2 THEN (IF bissexto(ano) THEN 29 ELSE 28)
    ELSE IF mes \in {4, 6, 9, 11} THEN 30 ELSE 31

\* date(ano, mes, dia) raises ValueError unless this holds
DataValida(ano, mes, dia) ==
    /\ ano \in 1..9999
    /\ mes \in 1..12
    /\ dia \in 1..dias_no_mes(ano, mes)

DataLT(a, b) ==
    \/ a[1] < b[1]
    \/ a[1] = b[1] /\ a[2] < b[2]
    \/ a[1] = b[1] /\ a[2] = b[2] /\ a[3] < b[3]

DataLE(a, b) == a = b \/ DataLT(a, b)

\* the day after a date (date + timedelta(days=1))
DiaSeguinte(d) ==
    IF d[3] < dias_no_mes(d[1], d[2]) THEN <<d[1], d[2], d[3] + 1>>
    ELSE IF d[2] < 12 THEN <<d[1], d[2] + 1, 1>>
    ELSE <<d[1] + 1, 1, 1>>

(***************************************************************************)
(* Python's round(x, 2) on an amount num/den thousandths: nearest          *)
(* hundredth, an exact tie going to the even hundredth.                    *)
(* Amounts are exact decimals: the representation error of binary floats  *)
(* is not modelled.                                                        *)
(***************************************************************************)
RoundDiv(n, d) ==
    LET q == n \div d
        r == n % d
    IN  IF 2 * r < d THEN q
        ELSE IF 2 * r > d THEN q + 1
        ELSE IF q % 2 = 0 THEN q ELSE q + 1

Frac(n, d) == [num |-> n, den |-> d]

round2(x) == 10 * RoundDiv(x.num, 10 * x.den)

Max(a, b) == IF a >= b THEN a ELSE b

Abs(a) == IF a < 0 THEN -a ELSE a

\* greatest common divisor
RECURSIVE MDC(_, _)
MDC(a, b) == IF b = 0 THEN a ELSE MDC(b, a % b)

(***************************************************************************)
(* app/services/juros.py                                                   *)
(***************************************************************************)
tabela == (1 :> 9) @@ (2 :> 19) @@ (3 :> 30) @@ (4 :> 41) @@ (5 :> 54) @@ (6 :> 68)

ValueError == [erro |-> "ValueError"]

NaoTermina == [erro |-> "NaoTermina"]

\* mutant: an unknown duration given the highest rate (tabela.get(d, 0.68))
obter_taxa_por_meses_com_padrao(duracao_meses) ==
    IF duracao_meses \notin DOMAIN tabela THEN [erro |-> "", taxa |-> 68]
    ELSE [erro |-> "", taxa |-> tabela[duracao_meses]]

obter_taxa_por_meses(duracao_meses) ==
    IF duracao_meses \notin DOMAIN tabela THEN ValueError
    ELSE [erro |-> "", taxa |-> tabela[duracao_meses]]

\* mutant: the interest alone returned as the total (valor * taxa)
calcular_total_reembolsar_so_juros(valor_solicitado, duracao_meses) ==
    LET t == obter_taxa_por_meses(duracao_meses)
    IN  IF t.erro # "" THEN t
        ELSE [erro |-> "", taxa |-> t.taxa,
              total |-> Frac(valor_solicitado * t.taxa, 100)]

\* valor_solicitado * (1 + taxa), the exact product, kept in lower terms
calcular_total_reembolsar(valor_solicitado, duracao_meses) ==
    LET t == obter_taxa_por_meses(duracao_meses)
        g == MDC(100, Abs(valor_solicitado))
    IN  IF t.erro # "" THEN t
        ELSE [erro |-> "", taxa |-> t.taxa,
              total |-> Frac((valor_solicitado \div g) * (100 + t.taxa), 100 \div g)]

ZeroDivisionError == [erro |-> "ZeroDivisionError"]

\* mutant: the guard written duracao_meses < 0, a zero duration dividing
calcular_prestacao_mensal_sem_zero(total_reembolsar, duracao_meses) ==
    IF duracao_meses < 0 THEN ValueError
    ELSE IF duracao_meses = 0 THEN ZeroDivisionError
    ELSE [erro |-> "",
          prestacao |-> Frac(total_reembolsar.num, total_reembolsar.den * duracao_meses)]

calcular_prestacao_mensal(total_reembolsar, duracao_meses) ==
    IF duracao_meses <= 0 THEN ValueError
    ELSE [erro |-> "",
          prestacao |-> Frac(total_reembolsar.num, total_reembolsar.den * duracao_meses)]

\* while mes > 12: mes -= 12; ano += 1
RECURSIVE ReduzMes(_, _)
ReduzMes(ano, mes) ==
    IF mes > 12 THEN ReduzMes(ano + 1, mes - 12) ELSE <<ano, mes>>

\* while True: try: return date(ano, mes, dia) / except ValueError: dia -= 1
\* No day makes date() succeed when the month or the year is out of range:
\* the loop then never returns.
RECURSIVE AjustaDia(_, _, _)
AjustaDia(ano, mes, dia) ==
    IF DataValida(ano, mes, dia) THEN [erro |-> "", data |-> <<ano, mes, dia>>]
    ELSE IF ano \notin 1..9999 \/ mes \notin 1..12 \/ dia < 1 THEN NaoTermina
    ELSE AjustaDia(ano, mes, dia - 1)

\* mutant: a single rollover (if mes > 12) in place of the while loop
adicionar_meses_um_rollover(data_inicio, meses) ==
    LET mes == data_inicio[2] + meses
    IN  IF mes > 12 THEN AjustaDia(data_inicio[1] + 1, mes - 12, data_inicio[3])
        ELSE AjustaDia(data_inicio[1], mes, data_inicio[3])

adicionar_meses(data_inicio, meses) ==
    LET am == ReduzMes(data_inicio[1], data_inicio[2] + meses)
    IN  AjustaDia(am[1], am[2], data_inicio[3])

calcular_data_fim(data_inicio, duracao_meses) ==
    adicionar_meses(data_inicio, duracao_meses)

\* mutant: the date rule tried before the balance rule
calcular_estado_datas_primeiro(data_fim, saldo_em_aberto, hoje_) ==
    IF DataLE(hoje_, data_fim) THEN "Ativo"
    ELSE IF saldo_em_aberto <= 0 THEN "Concluido"
    ELSE "Devedor"

\* mutant: the maturity day itself already overdue (hoje < data_fim)
calcular_estado_estrito(data_fim, saldo_em_aberto, hoje_) ==
    IF saldo_em_aberto <= 0 THEN "Concluido"
    ELSE IF DataLT(hoje_, data_fim) THEN "Ativo"
    ELSE "Devedor"

calcular_estado(data_fim, saldo_em_aberto, hoje_) ==
    IF saldo_em_aberto <= 0 THEN "Concluido"
    ELSE IF DataLE(hoje_, data_fim) THEN "Ativo"
    ELSE "Devedor"

(***************************************************************************)
(* State: the tables creditos and pagamentos (app/db_models.py), the wall  *)
(* clock read by date.today(), and the last request with its response.     *)
(***************************************************************************)
VARIABLES
    creditos,    \* id_credito -> row of CreditoDB
    pagamentos,  \* id_pagamento -> row of PagamentoDB
    hoje,        \* date.today()
    resp,        \* the last request: operation, HTTP status, what it carried or showed
    ce,          \* inputs and result of a direct call of calcular_estado
    reqs,        \* concurrent registrar_pagamento requests, each with its session
    jr,          \* inputs and result of a direct call of a function of juros.py
    users,       \* username -> row of UserDB
    token        \* the token the caller holds (header or cookie) and presents

vars == <<creditos, pagamentos, hoje, resp, ce, reqs, jr, users, token>>

(***************************************************************************)
(* Inputs of the requests.                                                 *)
(***************************************************************************)
ValoresSolicitados == {4, 33330}
ValoresSolicitadosInvalidos == {0}
Duracoes == {1, 3}
DuracoesInvalidas == {7}
DatasInicio == {<<2025, 1, 31>>}
Calendario == {<<2025, 2, 28>>, <<2025, 3, 1>>}
ValoresPagamento == {1, 40007}
ValoresPagamentoInvalidos == {0}
Comprovativos == {"UA-01", "UA-02", "UA-03"}

\* Python's None, for an id that is optional
Nenhum == 0

\* the rows of the table atendentes (no request modelled here changes it)
atendentes == {1}

\* id_atendente of a request: absent, or an id that is not in the table
IdsAtendente == {Nenhum, 9}

Resposta(op, status, out) == [op |-> op, status |-> status, out |-> out]

SemCe == [data_fim |-> <<2025, 1, 15>>, saldo |-> 0, hoje |-> <<2025, 1, 15>>, out |-> "-"]

SemJr == [fn |-> "-", valor |-> 0, meses |-> 0, data |-> <<2025, 1, 15>>, out |-> <<>>]

\* next autoincrement primary key of a table (SQLite rowid: largest key + 1)
ProximoId(tab) ==
    IF DOMAIN tab = {} THEN 1
    ELSE (CHOOSE k \in DOMAIN tab : \A j \in DOMAIN tab : j <= k) + 1

Inserir(tab, linha) == tab @@ (ProximoId(tab) :> linha)

Remover(tab, id) == [k \in DOMAIN tab \ {id} |-> tab[k]]

\* sum(float(p.valor_pago_no_dia or 0) for p in pagamentos) over a credit's rows
RECURSIVE SomaLinhas(_, _)
SomaLinhas(pags, ids) ==
    IF ids = {} THEN 0
    ELSE LET k == CHOOSE k \in ids : TRUE
         IN  pags[k].valor_pago_no_dia + SomaLinhas(pags, ids \ {k})

PagamentosDoCredito(pags, id_credito) ==
    {k \in DOMAIN pags : pags[k].id_credito = id_credito}

SomaPagamentos(pags, id_credito) ==
    SomaLinhas(pags, PagamentosDoCredito(pags, id_credito))

(***************************************************************************)
(* app/models/schemas.py: what FastAPI validates before the handler runs   *)
(* (a failure is answered 422 and the handler is not called).              *)
(***************************************************************************)
CreditoCreateValido(p) ==
    /\ p.valor_solicitado > 0
    /\ p.duracao_meses >= 1 /\ p.duracao_meses <= 6

CreditoUpdateValido(data) ==
    /\ "valor_solicitado" \in DOMAIN data => data["valor_solicitado"] > 0
    /\ "duracao_meses" \in DOMAIN data =>
           data["duracao_meses"] >= 1 /\ data["duracao_meses"] <= 6

\* mutant: the amount declared without gt=0
PagamentoCreateValido_sem_gt(p) ==
    /\ p.id_credito > 0
    /\ Len(p.nr_comprovativo) >= 5
    /\ p.id_atendente = Nenhum \/ p.id_atendente > 0

PagamentoCreateValido(p) ==
    /\ p.id_credito > 0
    /\ Len(p.nr_comprovativo) >= 5
    /\ p.valor_pago_no_dia > 0
    /\ p.id_atendente = Nenhum \/ p.id_atendente > 0

PagamentoUpdateValido(data) ==
    /\ "nr_comprovativo" \in DOMAIN data => Len(data["nr_comprovativo"]) >= 5
    /\ "valor_pago_no_dia" \in DOMAIN data => data["valor_pago_no_dia"] > 0
    /\ "id_atendente" \in DOMAIN data =>
           data["id_atendente"] = Nenhum \/ data["id_atendente"] > 0

(***************************************************************************)
(* app/auth.py.  A token is what _get_token_from_request finds in the      *)
(* request: nothing, a string that jwt.decode rejects (bad signature,      *)
(* expired, no "sub"), or a JWT issued by POST /token whose "sub" is a     *)
(* username.  A password hash is the digest tagged with its password: two  *)
(* hashes are equal exactly when the passwords are.                        *)
(***************************************************************************)
SemToken == [tipo |-> "nenhum", sub |-> ""]

TokenInvalido == [tipo |-> "invalido", sub |-> ""]

create_access_token(username) == [tipo |-> "jwt", sub |-> username]

hash_sha256(password) == <<"sha256", password>>

verify_password(plain_password, hashed_password) ==
    hash_sha256(plain_password) = hashed_password

get_password_hash(password) == hash_sha256(password)

\* the users table: the default admin of main.py and two users made by create_user
UsersIniciais ==
    [u \in {"alberto_admin", "gestor1", "leitor1"} |->
        [role |-> IF u = "alberto_admin" THEN "admin"
                  ELSE IF u = "gestor1" THEN "gestor" ELSE "leitor",
         is_active |-> TRUE,
         hashed_password |-> get_password_hash(
             IF u = "alberto_admin" THEN "Ukamba123" ELSE "senha-" \o u)]]

Senhas == {"Ukamba123", "senha-gestor1", "senha-leitor1"}

\* the user, or None (ok = FALSE)
authenticate_user(us, username, password) ==
    IF username \notin DOMAIN us THEN [ok |-> FALSE, username |-> ""]
    ELSE IF ~verify_password(password, us[username].hashed_password)
         THEN [ok |-> FALSE, username |-> ""]
    ELSE IF ~us[username].is_active THEN [ok |-> FALSE, username |-> ""]
    ELSE [ok |-> TRUE, username |-> username]

\* POST /token
login(us, username, password) ==
    LET user == authenticate_user(us, username, password)
    IN  IF ~user.ok THEN [status |-> 401, token |-> SemToken]
        ELSE [status |-> 200, token |-> create_access_token(user.username)]

get_current_user(us, tk) ==
    IF tk.tipo = "nenhum" THEN [status |-> 401, username |-> ""]
    ELSE IF tk.tipo # "jwt" THEN [status |-> 401, username |-> ""]
    ELSE IF tk.sub \notin DOMAIN us THEN [status |-> 401, username |-> ""]
    ELSE [status |-> 200, username |-> tk.sub]

\* mutant: an inactive user passes
get_current_active_user_sem_ativo(us, tk) ==
    get_current_user(us, tk)

get_current_active_user(us, tk) ==
    LET current_user == get_current_user(us, tk)
    IN  IF current_user.status # 200 THEN current_user
        ELSE IF ~us[current_user.username].is_active
             THEN [status |-> 403, username |-> ""]
        ELSE current_user

\* mutant: any active user passes, whatever the role
require_roles_sem_papel(us, tk, roles) ==
    get_current_active_user(us, tk).status

\* the status the dependency answers with, 200 when it lets the request in
require_roles(us, tk, roles) ==
    LET current_user == get_current_active_user(us, tk)
    IN  IF current_user.status # 200 THEN current_user.status
        ELSE IF us[current_user.username].role \notin roles THEN 403
        ELSE 200

admin_only(us, tk) == require_roles(us, tk, {"admin"})

admin_ou_gestor(us, tk) == require_roles(us, tk, {"admin", "gestor"})

\* POST /admin/users/{user_id}/toggle (the route takes no token)
toggle_active(us, user_id) ==
    IF user_id \notin DOMAIN us THEN us
    ELSE [us EXCEPT ![user_id].is_active = ~@]

\* GET /admin/whoami
whoami(us, tk) == get_current_active_user(us, tk)

(***************************************************************************)
(* app/routes/pagamentos.py                                                *)
(***************************************************************************)
R2(n) == round2(Frac(n, 1))

Resultado(status, cs, ps) == [status |-> status, creditos |-> cs, pagamentos |-> ps]

\* mutant: the balance not floored at zero
pagamentos_recalcular_credito_sem_piso(credito, hj) ==
    LET pago == R2(credito.valor_pago)
        saldo == R2(credito.valor_total_reembolsar - pago)
    IN  [credito EXCEPT !.valor_pago = pago,
                        !.saldo_em_aberto = saldo,
                        !.estado = calcular_estado(credito.data_fim, saldo, hj)]

\* mutant: the balance recomputed, the state left as stored
pagamentos_recalcular_credito_estado_antigo(credito, hj) ==
    LET pago == R2(credito.valor_pago)
        saldo == R2(credito.valor_total_reembolsar - pago)
        saldo0 == IF saldo < 0 THEN 0 ELSE saldo
    IN  [credito EXCEPT !.valor_pago = pago, !.saldo_em_aberto = saldo0]

\* mutant: a credit paid off after its maturity stays "Devedor"
pagamentos_recalcular_credito_so_ate_vencimento(credito, hj) ==
    LET pago == R2(credito.valor_pago)
        saldo == R2(credito.valor_total_reembolsar - pago)
        saldo0 == IF saldo < 0 THEN 0 ELSE saldo
    IN  [credito EXCEPT !.valor_pago = pago,
                        !.saldo_em_aberto = saldo0,
                        !.estado = IF DataLT(credito.data_fim, hj) THEN "Devedor"
                                   ELSE calcular_estado(credito.data_fim, saldo0, hj)]

\* pagamentos.py _recalcular_credito
pagamentos_recalcular_credito(credito, hj) ==
    LET pago == R2(credito.valor_pago)
        saldo == R2(credito.valor_total_reembolsar - pago)
        saldo0 == IF saldo < 0 THEN 0 ELSE saldo
    IN  [credito EXCEPT !.valor_pago = pago,
                        !.saldo_em_aberto = saldo0,
                        !.estado = calcular_estado(credito.data_fim, saldo0, hj)]

\* mutant: the receipt number never looked up
ExisteComprovativo_sem_consulta(ps, nr) == FALSE

\* db.query(PagamentoDB).filter(PagamentoDB.nr_comprovativo == nr).first()
ExisteComprovativo(ps, nr) == \E k \in DOMAIN ps : ps[k].nr_comprovativo = nr

\* mutant: the attendant looked up after the commit
registrar_pagamento_atendente_depois(cs, ps, hj, payload) ==
    IF payload.id_credito \notin DOMAIN cs THEN Resultado(404, cs, ps)
    ELSE IF payload.valor_pago_no_dia <= 0 THEN Resultado(400, cs, ps)
    ELSE IF ExisteComprovativo(ps, payload.nr_comprovativo) THEN Resultado(409, cs, ps)
    ELSE
      LET credito == cs[payload.id_credito]
          somado == [credito EXCEPT
                        !.valor_pago = R2(credito.valor_pago + payload.valor_pago_no_dia)]
          pagamento == [nr_comprovativo |-> payload.nr_comprovativo,
                        id_credito |-> payload.id_credito,
                        valor_pago_no_dia |-> payload.valor_pago_no_dia,
                        id_atendente |-> payload.id_atendente]
      IN  Resultado(IF payload.id_atendente # Nenhum
                       /\ payload.id_atendente \notin atendentes THEN 404 ELSE 200,
                    [cs EXCEPT ![payload.id_credito] =
                        pagamentos_recalcular_credito(somado, hj)],
                    Inserir(ps, pagamento))

registrar_pagamento(cs, ps, hj, payload) ==
    IF payload.id_credito \notin DOMAIN cs THEN Resultado(404, cs, ps)
    ELSE IF payload.valor_pago_no_dia <= 0 THEN Resultado(400, cs, ps)
    ELSE IF ExisteComprovativo(ps, payload.nr_comprovativo) THEN Resultado(409, cs, ps)
    ELSE IF payload.id_atendente # Nenhum /\ payload.id_atendente \notin atendentes
         THEN Resultado(404, cs, ps)
    ELSE
      LET credito == cs[payload.id_credito]
          somado == [credito EXCEPT
                        !.valor_pago = R2(credito.valor_pago + payload.valor_pago_no_dia)]
          pagamento == [nr_comprovativo |-> payload.nr_comprovativo,
                        id_credito |-> payload.id_credito,
                        valor_pago_no_dia |-> payload.valor_pago_no_dia,
                        id_atendente |-> payload.id_atendente]
      IN  Resultado(200,
                    [cs EXCEPT ![payload.id_credito] =
                        pagamentos_recalcular_credito(somado, hj)],
                    Inserir(ps, pagamento))

atualizar_pagamento(cs, ps, hj, id_pagamento, data) ==
    IF id_pagamento \notin DOMAIN ps THEN Resultado(404, cs, ps)
    ELSE
      LET pagamento == ps[id_pagamento]
          credito == cs[pagamento.id_credito]
      IN  IF /\ "nr_comprovativo" \in DOMAIN data
             /\ data["nr_comprovativo"] # pagamento.nr_comprovativo
             /\ ExisteComprovativo(ps, data["nr_comprovativo"])
          THEN Resultado(409, cs, ps)
          ELSE IF /\ "id_atendente" \in DOMAIN data
                  /\ data["id_atendente"] # Nenhum
                  /\ data["id_atendente"] \notin atendentes
          THEN Resultado(404, cs, ps)
          ELSE
            LET novo == data["valor_pago_no_dia"]
                delta == novo - pagamento.valor_pago_no_dia
                pago == R2(credito.valor_pago + delta)
                pago0 == IF pago < 0 THEN 0 ELSE pago
                cs1 == IF "valor_pago_no_dia" \in DOMAIN data
                       THEN [cs EXCEPT ![pagamento.id_credito] =
                               pagamentos_recalcular_credito(
                                   [credito EXCEPT !.valor_pago = pago0], hj)]
                       ELSE cs
                p1 == IF "valor_pago_no_dia" \in DOMAIN data
                      THEN [pagamento EXCEPT !.valor_pago_no_dia = novo]
                      ELSE pagamento
                p2 == [f \in DOMAIN p1 |->
                         IF f # "valor_pago_no_dia" /\ f \in DOMAIN data
                         THEN data[f] ELSE p1[f]]
            IN  Resultado(200, cs1, [ps EXCEPT ![id_pagamento] = p2])

apagar_pagamento(cs, ps, hj, id_pagamento) ==
    IF id_pagamento \notin DOMAIN ps THEN Resultado(404, cs, ps)
    ELSE
      LET pagamento == ps[id_pagamento]
          credito == cs[pagamento.id_credito]
          pago == R2(credito.valor_pago - pagamento.valor_pago_no_dia)
          pago0 == IF pago < 0 THEN 0 ELSE pago
      IN  Resultado(200,
                    [cs EXCEPT ![pagamento.id_credito] =
                        pagamentos_recalcular_credito(
                            [credito EXCEPT !.valor_pago = pago0], hj)],
                    Remover(ps, id_pagamento))

(***************************************************************************)
(* app/routes/creditos.py                                                  *)
(***************************************************************************)
\* mutant: the sum of the rows added to the stored amount (c.valor_pago += ...)
creditos_recalcular_credito_acumula(c, ps, id_credito, hj) ==
    LET total_pago == c.valor_pago + SomaPagamentos(ps, id_credito)
        saldo == Max(0, c.valor_total_reembolsar - total_pago)
    IN  [c EXCEPT !.valor_pago = total_pago,
                  !.saldo_em_aberto = saldo,
                  !.estado = calcular_estado(c.data_fim, saldo, hj)]

\* mutant: the sum of the rows rounded to cents, as pagamentos.py rounds
creditos_recalcular_credito_arredonda(c, ps, id_credito, hj) ==
    LET total_pago == R2(SomaPagamentos(ps, id_credito))
        saldo == Max(0, c.valor_total_reembolsar - total_pago)
    IN  [c EXCEPT !.valor_pago = total_pago,
                  !.saldo_em_aberto = saldo,
                  !.estado = calcular_estado(c.data_fim, saldo, hj)]

\* creditos.py _recalcular_credito: from ALL the payment rows of the credit
creditos_recalcular_credito(c, ps, id_credito, hj) ==
    LET total_pago == SomaPagamentos(ps, id_credito)
        saldo == Max(0, c.valor_total_reembolsar - total_pago)
    IN  [c EXCEPT !.valor_pago = total_pago,
                  !.saldo_em_aberto = saldo,
                  !.estado = calcular_estado(c.data_fim, saldo, hj)]

\* GET /creditos/simular: the query parameters are a float and an int, with
\* no constraint declared
simular_credito(valor_solicitado, duracao_meses) ==
    LET t == calcular_total_reembolsar(valor_solicitado, duracao_meses)
        p == IF t.erro # "" THEN t
             ELSE calcular_prestacao_mensal(t.total, duracao_meses)
    IN  IF t.erro = "ValueError" \/ p.erro = "ValueError" THEN [status |-> 400]
        ELSE [status |-> 200,
              valor_solicitado |-> valor_solicitado,
              duracao_meses |-> duracao_meses,
              taxa |-> t.taxa,
              total_reembolsar |-> round2(t.total),
              prestacao_mensal |-> round2(p.prestacao)]

\* the schedule computed by criar_credito and atualizar_credito
Plano(valor_solicitado, duracao_meses, data_inicio) ==
    LET t == calcular_total_reembolsar(valor_solicitado, duracao_meses)
        p == IF t.erro # "" THEN t
             ELSE calcular_prestacao_mensal(t.total, duracao_meses)
        f == calcular_data_fim(data_inicio, duracao_meses)
    IN  IF t.erro # "" THEN t
        ELSE IF p.erro # "" THEN p
        ELSE IF f.erro # "" THEN f
        ELSE [erro |-> "", taxa |-> t.taxa, total |-> t.total,
              prestacao |-> p.prestacao, data_fim |-> f.data]

\* mutant: a new credit always stored as "Ativo"
criar_credito_sempre_ativo(cs, ps, hj, payload) ==
    LET pl == Plano(payload.valor_solicitado, payload.duracao_meses, payload.data_inicio)
    IN  IF pl.erro = "ValueError" THEN Resultado(400, cs, ps)
        ELSE
          LET c == [valor_solicitado |-> payload.valor_solicitado,
                    duracao_meses |-> payload.duracao_meses,
                    taxa_juros |-> pl.taxa,
                    valor_total_reembolsar |-> round2(pl.total),
                    prestacao_mensal |-> round2(pl.prestacao),
                    valor_pago |-> 0,
                    saldo_em_aberto |-> round2(pl.total),
                    data_inicio |-> payload.data_inicio,
                    data_fim |-> pl.data_fim,
                    estado |-> "Ativo",
                    comentario |-> payload.comentario]
          IN  Resultado(200, Inserir(cs, c), ps)

criar_credito(cs, ps, hj, payload) ==
    LET pl == Plano(payload.valor_solicitado, payload.duracao_meses, payload.data_inicio)
    IN  IF pl.erro = "ValueError" THEN Resultado(400, cs, ps)
        ELSE
          LET saldo == round2(pl.total)
              c == [valor_solicitado |-> payload.valor_solicitado,
                    duracao_meses |-> payload.duracao_meses,
                    taxa_juros |-> pl.taxa,
                    valor_total_reembolsar |-> round2(pl.total),
                    prestacao_mensal |-> round2(pl.prestacao),
                    valor_pago |-> 0,
                    saldo_em_aberto |-> saldo,
                    data_inicio |-> payload.data_inicio,
                    data_fim |-> pl.data_fim,
                    estado |-> calcular_estado(pl.data_fim, saldo, hj),
                    comentario |-> payload.comentario]
          IN  Resultado(200, Inserir(cs, c), ps)

obter_credito(cs, ps, hj, id_credito) ==
    IF id_credito \notin DOMAIN cs THEN Resultado(404, cs, ps)
    ELSE Resultado(200,
                   [cs EXCEPT ![id_credito] =
                       creditos_recalcular_credito(cs[id_credito], ps, id_credito, hj)],
                   ps)

listar_creditos(cs, ps, hj) ==
    Resultado(200,
              [k \in DOMAIN cs |-> creditos_recalcular_credito(cs[k], ps, k, hj)],
              ps)

\* for k, v in data.items(): setattr(c, k, v)
Setattr(c, data) ==
    [f \in DOMAIN c |-> IF f \in DOMAIN data THEN data[f] ELSE c[f]]

\* mutant: a change of terms restarts the credit with nothing paid
atualizar_credito_zera_pago(cs, ps, hj, id_credito, data) ==
    IF id_credito \notin DOMAIN cs THEN Resultado(404, cs, ps)
    ELSE
      LET c == Setattr(cs[id_credito], data)
          pl == Plano(c.valor_solicitado, c.duracao_meses, c.data_inicio)
          total == round2(pl.total)
      IN  IF pl.erro = "ValueError" THEN Resultado(400, cs, ps)
          ELSE Resultado(200,
                  [cs EXCEPT ![id_credito] =
                      [c EXCEPT !.taxa_juros = pl.taxa,
                                !.valor_total_reembolsar = total,
                                !.prestacao_mensal = round2(pl.prestacao),
                                !.data_fim = pl.data_fim,
                                !.valor_pago = 0,
                                !.saldo_em_aberto = total,
                                !.estado = calcular_estado(pl.data_fim, total, hj)]],
                  ps)

\* mutant: without a change of terms the stored state is left as it is
atualizar_credito_sem_refrescar(cs, ps, hj, id_credito, data) ==
    IF id_credito \notin DOMAIN cs THEN Resultado(404, cs, ps)
    ELSE
      LET vai_recalcular ==
              \E k \in {"valor_solicitado", "duracao_meses", "data_inicio"} :
                  k \in DOMAIN data
          c == Setattr(cs[id_credito], data)
          pl == Plano(c.valor_solicitado, c.duracao_meses, c.data_inicio)
          total == round2(pl.total)
          saldo == R2(total - c.valor_pago)
          saldo0 == IF saldo < 0 THEN 0 ELSE saldo
      IN  IF ~vai_recalcular THEN Resultado(200, [cs EXCEPT ![id_credito] = c], ps)
          ELSE IF pl.erro = "ValueError" THEN Resultado(400, cs, ps)
          ELSE Resultado(200,
                  [cs EXCEPT ![id_credito] =
                      [c EXCEPT !.taxa_juros = pl.taxa,
                                !.valor_total_reembolsar = total,
                                !.prestacao_mensal = round2(pl.prestacao),
                                !.data_fim = pl.data_fim,
                                !.saldo_em_aberto = saldo0,
                                !.estado = calcular_estado(pl.data_fim, saldo0, hj)]],
                  ps)

atualizar_credito(cs, ps, hj, id_credito, data) ==
    IF id_credito \notin DOMAIN cs THEN Resultado(404, cs, ps)
    ELSE
      LET vai_recalcular ==
              \E k \in {"valor_solicitado", "duracao_meses", "data_inicio"} :
                  k \in DOMAIN data
          c == Setattr(cs[id_credito], data)
      IN  IF vai_recalcular
          THEN
            LET pl == Plano(c.valor_solicitado, c.duracao_meses, c.data_inicio)
            IN  IF pl.erro = "ValueError" THEN Resultado(400, cs, ps)
                ELSE
                  LET total == round2(pl.total)
                      saldo == R2(total - c.valor_pago)
                      saldo0 == IF saldo < 0 THEN 0 ELSE saldo
                  IN  Resultado(200,
                          [cs EXCEPT ![id_credito] =
                              [c EXCEPT !.taxa_juros = pl.taxa,
                                        !.valor_total_reembolsar = total,
                                        !.prestacao_mensal = round2(pl.prestacao),
                                        !.data_fim = pl.data_fim,
                                        !.saldo_em_aberto = saldo0,
                                        !.estado = calcular_estado(pl.data_fim, saldo0, hj)]],
                          ps)
          ELSE Resultado(200,
                   [cs EXCEPT ![id_credito] =
                       [c EXCEPT !.estado =
                           calcular_estado(c.data_fim, c.saldo_em_aberto, hj)]],
                   ps)

\* mutant: a credit deleted whether or not it has payments
apagar_credito_sem_bloqueio(cs, ps, id_credito) ==
    IF id_credito \notin DOMAIN cs THEN Resultado(404, cs, ps)
    ELSE Resultado(200, Remover(cs, id_credito), ps)

apagar_credito(cs, ps, id_credito) ==
    IF id_credito \notin DOMAIN cs THEN Resultado(404, cs, ps)
    ELSE IF PagamentosDoCredito(ps, id_credito) # {} THEN Resultado(409, cs, ps)
    ELSE Resultado(200, Remover(cs, id_credito), ps)

(***************************************************************************)
(* Reports that display the state: app/services/dashboard_service.py and   *)
(* app/services/relatorios.py.  They read the stored column estado.        *)
(***************************************************************************)
ComEstado(cs, estado) == {k \in DOMAIN cs : cs[k].estado = estado}

dashboard_data(cs) ==
    [ativos |-> Cardinality(ComEstado(cs, "Ativo")),
     devedores |-> Cardinality(ComEstado(cs, "Devedor")),
     concluidos |-> Cardinality(ComEstado(cs, "Concluido")),
     top_devedores |-> ComEstado(cs, "Devedor")]

resumo_geral(cs) ==
    [ativos |-> Cardinality(ComEstado(cs, "Ativo")),
     devedores |-> Cardinality(ComEstado(cs, "Devedor")),
     concluidos |-> Cardinality(ComEstado(cs, "Concluido"))]

lista_ativos(cs) == ComEstado(cs, "Ativo")

lista_concluidos(cs) == ComEstado(cs, "Concluido")

(***************************************************************************)
(* The requests, one action per route, run one after the other.            *)
(***************************************************************************)
Init ==
    /\ creditos = <<>>
    /\ pagamentos = <<>>
    /\ hoje \in Calendario
    /\ resp = Resposta("inicio", 0, {})
    /\ ce = SemCe
    /\ reqs = <<>>
    /\ jr = SemJr
    /\ users = UsersIniciais
    /\ token = create_access_token("alberto_admin")

Fora == <<ce, reqs, jr, users, token>>

Aplicar(op, out, r) ==
    /\ creditos' = r.creditos
    /\ pagamentos' = r.pagamentos
    /\ resp' = Resposta(op, r.status, out)
    /\ UNCHANGED <<hoje, Fora>>

Recusar(op, status) ==
    /\ resp' = Resposta(op, status, {})
    /\ UNCHANGED <<creditos, pagamentos, hoje, Fora>>

\* date.today() advances by itself, between two requests
PassarDia ==
    /\ \E d \in Calendario : DataLT(hoje, d) /\ hoje' = d
    /\ resp' = Resposta("passar_dia", 0, {})
    /\ UNCHANGED <<creditos, pagamentos, Fora>>

\* POST /creditos with this body: the dependency admin_ou_gestor, the
\* validation of the body, the handler
PedirCriarCredito(payload) ==
    LET a == admin_ou_gestor(users, token)
    IN  IF a # 200 THEN Recusar("criar_credito", a)
        ELSE IF ~CreditoCreateValido(payload) THEN Recusar("criar_credito", 422)
        ELSE /\ Cardinality(DOMAIN creditos) < MaxCreditos
             /\ Aplicar("criar_credito", {},
                        criar_credito(creditos, pagamentos, hoje, payload))

CriarCredito ==
    \E v \in ValoresSolicitados \cup ValoresSolicitadosInvalidos,
       d \in Duracoes \cup DuracoesInvalidas,
       i \in DatasInicio :
      PedirCriarCredito([valor_solicitado |-> v, duracao_meses |-> d,
                         data_inicio |-> i, comentario |-> ""])

ListarCreditos ==
    LET r == listar_creditos(creditos, pagamentos, hoje)
    IN  Aplicar("listar_creditos",
                [k \in DOMAIN r.creditos |-> r.creditos[k].estado], r)

ObterCredito ==
    \E id \in 1..MaxCreditos :
      LET r == obter_credito(creditos, pagamentos, hoje, id)
      IN  Aplicar("obter_credito",
                  IF r.status = 200 THEN (id :> r.creditos[id].estado) ELSE {}, r)

ObterCreditoComPagamentos ==
    \E id \in 1..MaxCreditos :
      LET r == obter_credito(creditos, pagamentos, hoje, id)
      IN  Aplicar("obter_credito_com_pagamentos",
                  IF r.status = 200 THEN (id :> r.creditos[id].estado) ELSE {}, r)

DadosCredito ==
    {[k \in S |-> IF k = "valor_solicitado" THEN v
                  ELSE IF k = "duracao_meses" THEN d ELSE i] :
        S \in SUBSET {"valor_solicitado", "duracao_meses", "data_inicio"},
        v \in ValoresSolicitados,
        d \in Duracoes,
        i \in DatasInicio}
    \cup {[k \in {"valor_solicitado"} |-> v] : v \in ValoresSolicitadosInvalidos}
    \cup {[k \in {"duracao_meses"} |-> d] : d \in DuracoesInvalidas}

DadosPagamento ==
    {[k \in S |-> IF k = "nr_comprovativo" THEN nr ELSE v] :
        S \in SUBSET {"nr_comprovativo", "valor_pago_no_dia"},
        nr \in Comprovativos,
        v \in ValoresPagamento}
    \cup {[k \in {"valor_pago_no_dia"} |-> v] : v \in ValoresPagamentoInvalidos}
    \cup {[k \in S \cup {"id_atendente"} |->
               IF k = "id_atendente" THEN at ELSE v] :
            S \in SUBSET {"valor_pago_no_dia"},
            v \in ValoresPagamento,
            at \in IdsAtendente \ {Nenhum}}

\* PATCH /creditos/{id_credito}
PedirAtualizarCredito(id, data) ==
    LET a == admin_ou_gestor(users, token)
    IN  IF a # 200 THEN Recusar("atualizar_credito", a)
        ELSE IF ~CreditoUpdateValido(data) THEN Recusar("atualizar_credito", 422)
        ELSE Aplicar("atualizar_credito",
                     DOMAIN data \cap {"valor_solicitado", "duracao_meses",
                                       "data_inicio"} # {},
                     atualizar_credito(creditos, pagamentos, hoje, id, data))

AtualizarCredito ==
    \E id \in 1..MaxCreditos, data \in DadosCredito : PedirAtualizarCredito(id, data)

\* DELETE /creditos/{id_credito}
ApagarCredito ==
    \E id \in 1..MaxCreditos :
      LET a == admin_only(users, token)
      IN  IF a # 200 THEN Recusar("apagar_credito", a)
          ELSE Aplicar("apagar_credito", {}, apagar_credito(creditos, pagamentos, id))

\* POST /pagamentos with this body
PedirRegistrarPagamento(payload) ==
    LET a == admin_ou_gestor(users, token)
        v == payload.valor_pago_no_dia
        r == registrar_pagamento(creditos, pagamentos, hoje, payload)
    IN  IF a # 200 \/ ~PagamentoCreateValido(payload)
        THEN /\ resp' = Resposta("registrar_pagamento", IF a # 200 THEN a ELSE 422, v)
             /\ UNCHANGED <<creditos, pagamentos, hoje, Fora>>
        ELSE /\ r.status = 200 => Cardinality(DOMAIN pagamentos) < MaxPagamentos
             /\ Aplicar("registrar_pagamento", v, r)

RegistrarPagamento ==
    \E c \in 1..MaxCreditos, nr \in Comprovativos,
       v \in ValoresPagamento \cup ValoresPagamentoInvalidos,
       at \in IdsAtendente :
      PedirRegistrarPagamento([id_credito |-> c, nr_comprovativo |-> nr,
                               valor_pago_no_dia |-> v, id_atendente |-> at])

\* PATCH /pagamentos/{id_pagamento}
PedirAtualizarPagamento(id, data) ==
    LET a == admin_ou_gestor(users, token)
    IN  IF a # 200 THEN Recusar("atualizar_pagamento", a)
        ELSE IF ~PagamentoUpdateValido(data) THEN Recusar("atualizar_pagamento", 422)
        ELSE Aplicar("atualizar_pagamento", "valor_pago_no_dia" \in DOMAIN data,
                     atualizar_pagamento(creditos, pagamentos, hoje, id, data))

AtualizarPagamento ==
    \E id \in 1..MaxPagamentos, data \in DadosPagamento :
      PedirAtualizarPagamento(id, data)

\* DELETE /pagamentos/{id_pagamento}: the route declares no dependency on a user
ApagarPagamento ==
    \E id \in 1..MaxPagamentos :
      Aplicar("apagar_pagamento", {},
              apagar_pagamento(creditos, pagamentos, hoje, id))

DashboardData ==
    /\ resp' = Resposta("dashboard_data", 200, dashboard_data(creditos))
    /\ UNCHANGED <<creditos, pagamentos, hoje, Fora>>

ResumoGeral ==
    /\ resp' = Resposta("resumo_geral", 200, resumo_geral(creditos))
    /\ UNCHANGED <<creditos, pagamentos, hoje, Fora>>

ListaAtivos ==
    /\ resp' = Resposta("lista_ativos", 200, lista_ativos(creditos))
    /\ UNCHANGED <<creditos, pagamentos, hoje, Fora>>

ListaConcluidos ==
    /\ resp' = Resposta("lista_concluidos", 200, lista_concluidos(creditos))
    /\ UNCHANGED <<creditos, pagamentos, hoje, Fora>>

Next ==
    \/ PassarDia
    \/ CriarCredito
    \/ ListarCreditos
    \/ ObterCredito
    \/ ObterCreditoComPagamentos
    \/ AtualizarCredito
    \/ ApagarCredito
    \/ RegistrarPagamento
    \/ AtualizarPagamento
    \/ ApagarPagamento

Spec == Init /\ [][Next]_vars

(***************************************************************************)
(* The reports, beside the requests that bring the ledger to the states    *)
(* they display.                                                           *)
(***************************************************************************)
NextRelatorios ==
    \/ PassarDia
    \/ CriarCredito
    \/ RegistrarPagamento
    \/ ObterCredito
    \/ DashboardData
    \/ ResumoGeral
    \/ ListaAtivos
    \/ ListaConcluidos

SpecRelatorios == Init /\ [][NextRelatorios]_vars

(***************************************************************************)
(* Any caller: the session logs in and out, its token expires, users are   *)
(* deactivated and reactivated, and the writes of the ledger are attempted *)
(* with whatever token the caller holds.                                   *)
(***************************************************************************)
InitAuth ==
    /\ creditos = <<>>
    /\ pagamentos = <<>>
    /\ hoje = <<2025, 2, 28>>
    /\ resp = Resposta("inicio", 0, {})
    /\ ce = SemCe
    /\ reqs = <<>>
    /\ jr = SemJr
    /\ users = UsersIniciais
    /\ token = SemToken

\* POST /token: on success the response sets the cookies to the new token
Login ==
    \E username \in DOMAIN users, password \in Senhas :
      LET r == login(users, username, password)
      IN  /\ resp' = Resposta("login", r.status, username)
          /\ token' = IF r.status = 200 THEN r.token ELSE token
          /\ UNCHANGED <<creditos, pagamentos, hoje, ce, reqs, jr, users>>

\* GET /logout deletes the cookies
Logout ==
    /\ resp' = Resposta("logout", 303, {})
    /\ token' = SemToken
    /\ UNCHANGED <<creditos, pagamentos, hoje, ce, reqs, jr, users>>

\* ACCESS_TOKEN_EXPIRE_MINUTES after it was issued, jwt.decode rejects the token
ExpirarToken ==
    /\ token.tipo = "jwt"
    /\ resp' = Resposta("expirar_token", 0, {})
    /\ token' = TokenInvalido
    /\ UNCHANGED <<creditos, pagamentos, hoje, ce, reqs, jr, users>>

ToggleActive ==
    \E user_id \in DOMAIN users :
      /\ resp' = Resposta("toggle_active", 303, user_id)
      /\ users' = toggle_active(users, user_id)
      /\ UNCHANGED <<creditos, pagamentos, hoje, ce, reqs, jr, token>>

Whoami ==
    /\ resp' = Resposta("whoami", whoami(users, token).status, {})
    /\ UNCHANGED <<creditos, pagamentos, hoje, Fora>>

\* the writes of the ledger, attempted with few bodies each
TentarCriarCredito ==
    PedirCriarCredito([valor_solicitado |-> 33330, duracao_meses |-> 1,
                       data_inicio |-> <<2025, 1, 31>>, comentario |-> ""])

TentarAtualizarCredito ==
    \E data \in {[k \in {"duracao_meses"} |-> 3], [k \in {"comentario"} |-> "revisto"]} :
      PedirAtualizarCredito(1, data)

TentarRegistrarPagamento ==
    \E nr \in {"UA-01", "UA-02"} :
      PedirRegistrarPagamento([id_credito |-> 1, nr_comprovativo |-> nr,
                               valor_pago_no_dia |-> 40007, id_atendente |-> 1])

TentarAtualizarPagamento ==
    \E id \in 1..MaxPagamentos :
      PedirAtualizarPagamento(id, [k \in {"valor_pago_no_dia"} |-> 1])

NextAuth ==
    \/ Login
    \/ Logout
    \/ ExpirarToken
    \/ ToggleActive
    \/ Whoami
    \/ TentarCriarCredito
    \/ TentarAtualizarCredito
    \/ ApagarCredito
    \/ TentarRegistrarPagamento
    \/ TentarAtualizarPagamento
    \/ ApagarPagamento

SpecAuth == InitAuth /\ [][NextAuth]_vars

(***************************************************************************)
(* The end-to-end scenario: a loan of 100000 Kz over 3 months from         *)
(* 2025-01-15, repaid in instalments or at once, read, annotated, and      *)
(* followed to its maturity and past it.                                   *)
(***************************************************************************)
CalendarioCenario == {<<2025, 1, 15>>, <<2025, 4, 15>>, <<2025, 4, 16>>}
PagamentosCenario == {43333330, 86666670, 130000000, 130000004}
DadosCenario ==
    {[k \in S |-> IF k = "comentario" THEN "revisto" ELSE 3] :
        S \in SUBSET {"comentario", "duracao_meses"}}

InitCenario ==
    /\ creditos = <<>>
    /\ pagamentos = <<>>
    /\ hoje = <<2025, 1, 15>>
    /\ resp = Resposta("inicio", 0, {})
    /\ ce = SemCe
    /\ reqs = <<>>
    /\ jr = SemJr
    /\ users = UsersIniciais
    /\ token = create_access_token("gestor1")

PassarDiaCenario ==
    /\ \E d \in CalendarioCenario : DataLT(hoje, d) /\ hoje' = d
    /\ resp' = Resposta("passar_dia", 0, {})
    /\ UNCHANGED <<creditos, pagamentos, Fora>>

CriarCenario ==
    PedirCriarCredito([valor_solicitado |-> 100000000, duracao_meses |-> 3,
                       data_inicio |-> <<2025, 1, 15>>, comentario |-> ""])

PagarCenario ==
    \E nr \in Comprovativos, v \in PagamentosCenario :
      PedirRegistrarPagamento([id_credito |-> 1, nr_comprovativo |-> nr,
                               valor_pago_no_dia |-> v, id_atendente |-> 1])

AnotarCenario ==
    \E data \in DadosCenario : PedirAtualizarCredito(1, data)

NextCenario ==
    \/ PassarDiaCenario
    \/ CriarCenario
    \/ PagarCenario
    \/ AnotarCenario
    \/ ObterCredito
    \/ ApagarPagamento

SpecCenario == InitCenario /\ [][NextCenario]_vars

(***************************************************************************)
(* calcular_estado called directly, on inputs drawn from bounded sets      *)
(* (negative balances and as-of dates before, on and after maturity).      *)
(***************************************************************************)
DatasEstado ==
    {<<2024, 2, 28>>, <<2024, 2, 29>>, <<2025, 2, 28>>, <<2025, 4, 30>>,
     <<2025, 12, 31>>, <<2031, 6, 15>>}
SaldosEstado == {-130000, -1, 0, 1, 4, 130000}

InitEstado ==
    /\ creditos = <<>>
    /\ pagamentos = <<>>
    /\ hoje \in Calendario
    /\ resp = Resposta("inicio", 0, {})
    /\ reqs = <<>>
    /\ jr = SemJr
    /\ users = UsersIniciais
    /\ token = create_access_token("alberto_admin")
    /\ \E f \in DatasEstado, s \in SaldosEstado,
          h \in DatasEstado \cup {DiaSeguinte(d) : d \in DatasEstado} :
         ce = [data_fim |-> f, saldo |-> s, hoje |-> h, out |-> "-"]

ChamarCalcularEstado ==
    /\ ce.out = "-"
    /\ ce' = [ce EXCEPT !.out = calcular_estado(ce.data_fim, ce.saldo, ce.hoje)]
    /\ UNCHANGED <<creditos, pagamentos, hoje, resp, reqs, jr, users, token>>

\* hoje=None: the as-of date defaults to date.today()
ChamarCalcularEstadoHoje ==
    /\ ce.out = "-"
    /\ ce' = [ce EXCEPT !.hoje = hoje,
                        !.out = calcular_estado(ce.data_fim, ce.saldo, hoje)]
    /\ UNCHANGED <<creditos, pagamentos, hoje, resp, reqs, jr, users, token>>

NextEstado == ChamarCalcularEstado \/ ChamarCalcularEstadoHoje

SpecEstado == InitEstado /\ [][NextEstado]_vars

(***************************************************************************)
(* The functions of app/services/juros.py and GET /creditos/simular called  *)
(* directly, on inputs drawn from bounded sets: principals that are         *)
(* negative, zero and positive, durations inside and outside the table,     *)
(* month counts that are negative, zero and span several years.             *)
(***************************************************************************)
PrincipaisJuros == {-100000, 0, 4, 33330, 100000}
MesesJuros == {-13, -2, -1, 0} \cup 1..14 \cup {25, 36}
DatasJuros ==
    {<<2023, 12, 31>>, <<2024, 1, 31>>, <<2024, 2, 29>>, <<2025, 1, 31>>,
     <<2025, 3, 31>>, <<2025, 8, 15>>, <<2025, 11, 30>>, <<9999, 12, 31>>}

InitJuros ==
    /\ creditos = <<>>
    /\ pagamentos = <<>>
    /\ hoje \in Calendario
    /\ resp = Resposta("inicio", 0, {})
    /\ ce = SemCe
    /\ reqs = <<>>
    /\ users = UsersIniciais
    /\ token = create_access_token("alberto_admin")
    /\ \E p \in PrincipaisJuros, m \in MesesJuros, d \in DatasJuros :
         jr = [fn |-> "-", valor |-> p, meses |-> m, data |-> d, out |-> <<>>]

Chamar(fn, out) ==
    /\ jr.fn = "-"
    /\ jr' = [jr EXCEPT !.fn = fn, !.out = out]
    /\ UNCHANGED <<creditos, pagamentos, hoje, resp, ce, reqs, users, token>>

ChamarObterTaxa ==
    Chamar("obter_taxa_por_meses", obter_taxa_por_meses(jr.meses))

ChamarCalcularTotal ==
    Chamar("calcular_total_reembolsar",
           calcular_total_reembolsar(jr.valor, jr.meses))

\* the total passed is jr.valor taken as an amount
ChamarCalcularPrestacao ==
    Chamar("calcular_prestacao_mensal",
           calcular_prestacao_mensal(Frac(jr.valor, 1), jr.meses))

ChamarCalcularDataFim ==
    Chamar("calcular_data_fim", calcular_data_fim(jr.data, jr.meses))

ChamarSimular ==
    Chamar("simular_credito", simular_credito(jr.valor, jr.meses))

NextJuros ==
    \/ ChamarObterTaxa
    \/ ChamarCalcularTotal
    \/ ChamarCalcularPrestacao
    \/ ChamarCalcularDataFim
    \/ ChamarSimular

SpecJuros == InitJuros /\ [][NextJuros]_vars

(***************************************************************************)
(* Two registrar_pagamento requests served at the same time (FastAPI runs  *)
(* sync handlers in a thread pool), each with its own Session (get_db).    *)
(* A request touches the database three times: the SELECT of the credit,   *)
(* the SELECT of the receipt number, and the flush + COMMIT.  Between them *)
(* it works on the row it loaded.                                          *)
(***************************************************************************)
Reqs == {1, 2}
ValoresPagamentoConc == {20000, 40000}

ReqInicial == [pc |-> "inicio", status |-> 0, payload |-> <<>>, carregado |-> <<>>]

InitConc ==
    /\ hoje \in Calendario
    /\ \E d \in Duracoes, v \in ValoresSolicitados, i \in DatasInicio :
         creditos = criar_credito(<<>>, <<>>, hoje,
                        [valor_solicitado |-> v, duracao_meses |-> d,
                         data_inicio |-> i, comentario |-> ""]).creditos
    /\ pagamentos = <<>>
    /\ resp = Resposta("inicio", 0, {})
    /\ ce = SemCe
    /\ jr = SemJr
    /\ users = UsersIniciais
    /\ token = create_access_token("alberto_admin")
    /\ reqs = [r \in Reqs |-> ReqInicial]

Terminar(r, status) ==
    reqs' = [reqs EXCEPT ![r] = [@ EXCEPT !.pc = "fim", !.status = status]]

\* credito = db.query(CreditoDB).filter(...).first()
ReqLerCredito(r) ==
    /\ reqs[r].pc = "inicio"
    /\ \E c \in 1..MaxCreditos, nr \in Comprovativos, v \in ValoresPagamentoConc :
         LET payload == [id_credito |-> c, nr_comprovativo |-> nr,
                         valor_pago_no_dia |-> v, id_atendente |-> Nenhum]
         IN  IF c \notin DOMAIN creditos
             THEN reqs' = [reqs EXCEPT ![r] =
                             [@ EXCEPT !.pc = "fim", !.status = 404,
                                       !.payload = payload]]
             ELSE reqs' = [reqs EXCEPT ![r] =
                             [@ EXCEPT !.pc = "lido", !.payload = payload,
                                       !.carregado = creditos[c]]]
    /\ UNCHANGED <<creditos, pagamentos, hoje, resp, ce, jr, users, token>>

\* existe = db.query(PagamentoDB).filter(nr_comprovativo == ...).first()
ReqVerComprovativo(r) ==
    /\ reqs[r].pc = "lido"
    /\ IF ExisteComprovativo(pagamentos, reqs[r].payload.nr_comprovativo)
       THEN Terminar(r, 409)
       ELSE reqs' = [reqs EXCEPT ![r] = [@ EXCEPT !.pc = "verificado"]]
    /\ UNCHANGED <<creditos, pagamentos, hoje, resp, ce, jr, users, token>>

\* the UPDATE a flush emits: the columns whose value differs from the loaded one
Flush(linha, carregado, local) ==
    [f \in DOMAIN linha |-> IF local[f] # carregado[f] THEN local[f] ELSE linha[f]]

\* credito.valor_pago = round(...); _recalcular_credito(credito); db.add; db.commit()
\* The unique index on nr_comprovativo fails the INSERT of a duplicate
\* (IntegrityError, answered 500, the transaction rolled back).
ReqCommit(r) ==
    /\ reqs[r].pc = "verificado"
    /\ LET payload == reqs[r].payload
           c == payload.id_credito
           carregado == reqs[r].carregado
           local == registrar_pagamento((c :> carregado), <<>>, hoje, payload)
       IN  IF ExisteComprovativo(pagamentos, payload.nr_comprovativo)
           THEN /\ Terminar(r, 500)
                /\ UNCHANGED <<creditos, pagamentos>>
           ELSE /\ creditos' = [creditos EXCEPT
                                  ![c] = Flush(@, carregado, local.creditos[c])]
                /\ pagamentos' = Inserir(pagamentos, local.pagamentos[1])
                /\ Terminar(r, 200)
    /\ UNCHANGED <<hoje, resp, ce, jr, users, token>>

NextConc ==
    \E r \in Reqs : ReqLerCredito(r) \/ ReqVerComprovativo(r) \/ ReqCommit(r)

SpecConc == InitConc /\ [][NextConc]_vars

(***************************************************************************)
(* Properties.                                                             *)
(***************************************************************************)
Estados == {"Ativo", "Devedor", "Concluido"}

\* a date as a number that grows with the date (for stating the claims)
Ordinal(d) == d[1] * 372 + d[2] * 31 + d[3]

\* C1: calcular_estado always returns one of the three states: Concluido
\* whenever the balance is <= 0, whatever the dates; otherwise Ativo when the
\* as-of date is on or before maturity; otherwise Devedor.
C1_EstadoRegrasPorOrdem ==
    ce.out # "-" =>
        /\ ce.out \in Estados
        /\ ce.saldo <= 0 => ce.out = "Concluido"
        /\ ce.saldo > 0 /\ Ordinal(ce.hoje) <= Ordinal(ce.data_fim) => ce.out = "Ativo"
        /\ ce.saldo > 0 /\ Ordinal(ce.hoje) > Ordinal(ce.data_fim) => ce.out = "Devedor"

\* C1 witness: a zero balance years after maturity was derived as Concluido
C1_Witness ==
    /\ ce.out = "Concluido"
    /\ ce.saldo = 0
    /\ Ordinal(ce.hoje) > Ordinal(ce.data_fim) + 372

\* C2: with a positive balance, the maturity day itself is Ativo and the
\* day after it is Devedor.
C2_FronteiraInclusiva ==
    ce.out # "-" /\ ce.saldo > 0 =>
        /\ ce.hoje = ce.data_fim => ce.out = "Ativo"
        /\ ce.hoje = DiaSeguinte(ce.data_fim) => ce.out = "Devedor"

\* C2 witness: both sides of the boundary were derived, one of them across
\* the end of a year
C2_Witness ==
    /\ ce.saldo > 0
    /\ ce.data_fim = <<2025, 12, 31>>
    /\ ce.hoje = <<2026, 1, 1>>
    /\ ce.out = "Devedor"

\* C3: every stored outstanding balance is >= 0.
C3_SaldoNaoNegativo ==
    \A id \in DOMAIN creditos : creditos[id].saldo_em_aberto >= 0

\* C3 witness: a credit paid beyond its total, its balance stored as zero
C3_Witness ==
    \E id \in DOMAIN creditos :
        /\ creditos[id].valor_pago > creditos[id].valor_total_reembolsar
        /\ creditos[id].saldo_em_aberto = 0
        /\ resp.op = "registrar_pagamento"

\* C4: every credit's valor_pago equals the sum of valor_pago_no_dia over the
\* payment rows stored for it.
C4_PagoIgualSomaDosPagamentos ==
    \A id \in DOMAIN creditos :
        creditos[id].valor_pago = SomaPagamentos(pagamentos, id)

\* C5: every credit's stored balance equals max(0, total repayable - paid).
C5_SaldoIgualTotalMenosPago ==
    \A id \in DOMAIN creditos :
        creditos[id].saldo_em_aberto =
            Max(0, creditos[id].valor_total_reembolsar - creditos[id].valor_pago)

\* C6: concurrent registrar_pagamento calls on one credit do not race: once
\* every request has been answered, the credit's valor_pago, saldo_em_aberto
\* and estado are those of the accepted payments applied one after the other.
C6_PagamentosConcorrentesNaoCorrem ==
    (\A r \in Reqs : reqs[r].pc = "fim") =>
        \A id \in DOMAIN creditos :
            LET pago == SomaPagamentos(pagamentos, id)
                saldo == Max(0, creditos[id].valor_total_reembolsar - pago)
            IN  /\ creditos[id].valor_pago = pago
                /\ creditos[id].saldo_em_aberto = saldo
                /\ creditos[id].estado =
                       calcular_estado(creditos[id].data_fim, saldo, hoje)

EstadoDoDia(id) ==
    calcular_estado(creditos[id].data_fim, creditos[id].saldo_em_aberto, hoje)

\* C7: the state a display shows is calcular_estado(data_fim, saldo_em_aberto,
\* today) evaluated at display time: the dashboard's top-debtor list and its
\* cards count exactly the credits that are "Devedor", "Ativo" and
\* "Concluido" on the day of the call.
C7_EstadoMostradoEhDoDia ==
    resp.op = "dashboard_data" =>
        /\ resp.out.top_devedores =
               {id \in DOMAIN creditos : EstadoDoDia(id) = "Devedor"}
        /\ resp.out.devedores =
               Cardinality({id \in DOMAIN creditos : EstadoDoDia(id) = "Devedor"})
        /\ resp.out.ativos =
               Cardinality({id \in DOMAIN creditos : EstadoDoDia(id) = "Ativo"})
        /\ resp.out.concluidos =
               Cardinality({id \in DOMAIN creditos : EstadoDoDia(id) = "Concluido"})

EscritasDeEstado ==
    {"criar_credito", "atualizar_credito", "registrar_pagamento",
     "atualizar_pagamento", "apagar_pagamento"}

Leituras == {"listar_creditos", "obter_credito", "obter_credito_com_pagamentos"}

LinhasDoCredito(ps, id) == [k \in PagamentosDoCredito(ps, id) |-> ps[k]]

\* the credits a step created, changed, or changed the payment rows of
Tocados ==
    {id \in DOMAIN creditos' :
        \/ id \notin DOMAIN creditos
        \/ creditos'[id] # creditos[id]
        \/ LinhasDoCredito(pagamentos', id) # LinhasDoCredito(pagamentos, id)}

\* C8: right after every successful criar_credito, atualizar_credito,
\* registrar_pagamento, atualizar_pagamento with a new amount and
\* apagar_pagamento, the stored estado of the credit it wrote equals
\* calcular_estado(data_fim, saldo_em_aberto, the day of the operation).
C8_EstadoRecalculadoAposEscrita ==
    [][(/\ resp'.op \in EscritasDeEstado
        /\ resp'.status = 200
        /\ resp'.op = "atualizar_pagamento" => resp'.out = TRUE)
       => \A id \in Tocados :
             creditos'[id].estado =
                 calcular_estado(creditos'[id].data_fim,
                                 creditos'[id].saldo_em_aberto, hoje')]_vars

C8_Witness ==
    /\ resp.op = "registrar_pagamento"
    /\ resp.status = 200
    /\ \E id \in DOMAIN creditos :
          /\ DataLT(creditos[id].data_fim, hoje)
          /\ creditos[id].estado = "Concluido"

Comuns == DOMAIN creditos \cap DOMAIN creditos'

\* C9 as stated: valor_pago decreases only as the result of apagar_pagamento.
C9_PagoSoDesceAoApagar ==
    [][\A c \in Comuns :
          creditos'[c].valor_pago < creditos[c].valor_pago
              => resp'.op = "apagar_pagamento"]_vars

\* C9 amended: valor_pago decreases only through apagar_pagamento, through
\* atualizar_pagamento given a new amount, through the read-time
\* recalculation (which replaces it by the sum of the payment rows) or, by
\* less than a cent, through registrar_pagamento rounding an unrounded value;
\* criar_credito, atualizar_credito and apagar_credito never lower it.
C9_PagoSoDescePorPagamentoOuArredondamento ==
    [][\A c \in Comuns :
          creditos'[c].valor_pago < creditos[c].valor_pago
              => \/ resp'.op = "apagar_pagamento"
                 \/ resp'.op = "atualizar_pagamento" /\ resp'.out = TRUE
                 \/ /\ resp'.op \in Leituras
                    /\ creditos'[c].valor_pago = SomaPagamentos(pagamentos', c)
                 \/ /\ resp'.op = "registrar_pagamento"
                    /\ creditos[c].valor_pago - creditos'[c].valor_pago < 10]_vars

C9_Witness ==
    /\ resp.op = "atualizar_pagamento"
    /\ resp.status = 200
    /\ resp.out = TRUE
    /\ \E c \in DOMAIN creditos :
          /\ creditos[c].valor_pago = 0
          /\ PagamentosDoCredito(pagamentos, c) # {}

PagamentosPositivos ==
    \A k \in DOMAIN pagamentos' : pagamentos'[k].valor_pago_no_dia > 0

RecusaSemEfeito(status) ==
    (resp'.op = "registrar_pagamento" /\ resp'.out <= 0)
        => /\ resp'.status = status
           /\ creditos' = creditos
           /\ pagamentos' = pagamentos

\* C10 as stated: registrar_pagamento with an amount <= 0 is rejected with
\* 400, adds no payment and changes no credit, and every stored payment has
\* valor_pago_no_dia > 0.
C10_NaoPositivoRecusado400 ==
    [][RecusaSemEfeito(400) /\ PagamentosPositivos]_vars

\* C10 amended: registrar_pagamento with an amount <= 0 is rejected with 422
\* (by the PagamentoCreate schema, before the handler runs), adds no payment
\* and changes no credit, and every stored payment has valor_pago_no_dia > 0.
C10_NaoPositivoRecusado422 ==
    [][RecusaSemEfeito(422) /\ PagamentosPositivos]_vars

C10_Witness ==
    /\ resp.op = "registrar_pagamento"
    /\ resp.out <= 0
    /\ resp.status = 422
    /\ pagamentos # <<>>

\* C11: a successful registrar_pagamento of amount v adds exactly one payment
\* row, raises the credit's valor_pago by exactly v, never raises its
\* saldo_em_aberto (new balance = max(0, total - new paid)) and leaves every
\* other credit unchanged.
C11_RegistrarSomaExatamente ==
    [][(resp'.op = "registrar_pagamento" /\ resp'.status = 200)
       => \E k \in DOMAIN pagamentos' \ DOMAIN pagamentos :
            LET c == pagamentos'[k].id_credito
                v == pagamentos'[k].valor_pago_no_dia
            IN  /\ DOMAIN pagamentos' = DOMAIN pagamentos \cup {k}
                /\ \A j \in DOMAIN pagamentos : pagamentos'[j] = pagamentos[j]
                /\ v = resp'.out
                /\ creditos'[c].valor_pago = creditos[c].valor_pago + v
                /\ creditos'[c].saldo_em_aberto <= creditos[c].saldo_em_aberto
                /\ creditos'[c].saldo_em_aberto =
                       Max(0, creditos'[c].valor_total_reembolsar
                                  - creditos'[c].valor_pago)
                /\ DOMAIN creditos' = DOMAIN creditos
                /\ \A o \in DOMAIN creditos \ {c} : creditos'[o] = creditos[o]]_vars

Criados == DOMAIN creditos' \ DOMAIN creditos

CriadoSemPagamentos(k) ==
    /\ creditos'[k].valor_pago = 0
    /\ creditos'[k].saldo_em_aberto = creditos'[k].valor_total_reembolsar
    /\ PagamentosDoCredito(pagamentos', k) = {}

\* C12 as stated: right after a successful criar_credito the new credit has
\* valor_pago = 0, saldo_em_aberto = valor_total_reembolsar and no payments,
\* and its estado is "Ativo" when the day of creation is on or before
\* data_fim and "Devedor" when data_fim has already passed.
C12_CriadoAtivoOuDevedor ==
    [][(resp'.op = "criar_credito" /\ resp'.status = 200)
       => \E k \in Criados :
            /\ CriadoSemPagamentos(k)
            /\ DataLE(hoje', creditos'[k].data_fim) => creditos'[k].estado = "Ativo"
            /\ DataLT(creditos'[k].data_fim, hoje') => creditos'[k].estado = "Devedor"]_vars

\* C12 amended: right after a successful criar_credito the new credit has
\* valor_pago = 0, saldo_em_aberto = valor_total_reembolsar and no payments;
\* when the stored total is positive its estado is "Ativo" on or before
\* data_fim and "Devedor" after it, and when the total rounds to 0.00 its
\* estado is "Concluido" whatever the dates.
C12_CriadoComSaldoTotal ==
    [][(resp'.op = "criar_credito" /\ resp'.status = 200)
       => \E k \in Criados :
            /\ Criados = {k}
            /\ CriadoSemPagamentos(k)
            /\ creditos'[k].estado =
                 IF creditos'[k].valor_total_reembolsar <= 0 THEN "Concluido"
                 ELSE IF DataLE(hoje', creditos'[k].data_fim) THEN "Ativo"
                 ELSE "Devedor"]_vars

C12_Witness ==
    /\ resp.op = "criar_credito"
    /\ resp.status = 200
    /\ \E k \in DOMAIN creditos :
          /\ creditos[k].valor_total_reembolsar = 0
          /\ creditos[k].valor_solicitado > 0
          /\ creditos[k].valor_pago = 0
          /\ creditos[k].estado = "Concluido"

\* C13: after obter_credito, listar_creditos or obter_credito_com_pagamentos
\* every credit read has valor_pago equal to the sum of its payment rows,
\* saldo_em_aberto = max(0, total - that sum) and estado =
\* calcular_estado(data_fim, saldo_em_aberto, today), and that estado is shown.
C13_LeituraRecalcula ==
    (resp.op \in Leituras /\ resp.status = 200) =>
        \A id \in DOMAIN resp.out :
            LET c == creditos[id]
                soma == SomaPagamentos(pagamentos, id)
            IN  /\ c.valor_pago = soma
                /\ c.saldo_em_aberto = Max(0, c.valor_total_reembolsar - soma)
                /\ c.estado = calcular_estado(c.data_fim, c.saldo_em_aberto, hoje)
                /\ resp.out[id] = c.estado

C13_Witness ==
    /\ resp.op = "obter_credito"
    /\ resp.status = 200
    /\ \E id \in DOMAIN resp.out :
          /\ creditos[id].valor_pago % 10 # 0
          /\ creditos[id].valor_pago > creditos[id].valor_total_reembolsar
          /\ creditos[id].estado = "Concluido"

\* C14: recomputing a credit's ledger is idempotent: with the same payment
\* rows and the same day, either _recalcular_credito applied twice leaves
\* valor_pago, saldo_em_aberto and estado as after applying it once.
C14_RecalculoIdempotente ==
    \A id \in DOMAIN creditos :
        LET a == pagamentos_recalcular_credito(creditos[id], hoje)
            b == creditos_recalcular_credito(creditos[id], pagamentos, id, hoje)
        IN  /\ pagamentos_recalcular_credito(a, hoje) = a
            /\ creditos_recalcular_credito(b, pagamentos, id, hoje) = b

C14_Witness ==
    \E id \in DOMAIN creditos :
        /\ PagamentosDoCredito(pagamentos, id) # {}
        /\ pagamentos_recalcular_credito(creditos[id], hoje) # creditos[id]
        /\ creditos[id].valor_pago > 0
        /\ creditos[id].saldo_em_aberto > 0

\* C15: obter_taxa_por_meses returns the table value for the durations 1..6
\* (9, 19, 30, 41, 54, 68 percent) and fails with ValueError, never a default
\* rate, for every other integer duration.
C15_TaxaDaTabelaOuErro ==
    jr.fn = "obter_taxa_por_meses" =>
        IF jr.meses \in 1..6
        THEN /\ jr.out.erro = ""
             /\ jr.out.taxa = CASE jr.meses = 1 -> 9
                                [] jr.meses = 2 -> 19
                                [] jr.meses = 3 -> 30
                                [] jr.meses = 4 -> 41
                                [] jr.meses = 5 -> 54
                                [] jr.meses = 6 -> 68
        ELSE jr.out = [erro |-> "ValueError"]

C15_Witness ==
    /\ jr.fn = "obter_taxa_por_meses"
    /\ jr.meses = 7
    /\ jr.out.erro = "ValueError"

\* C16: with a principal <= 0, calcular_total_reembolsar fails with an
\* invalid-input error and GET /creditos/simular answers an error; no total
\* is returned.
C16_PrincipalNaoPositivoFalha ==
    /\ (jr.fn = "calcular_total_reembolsar" /\ jr.valor <= 0)
          => (jr.out.erro # "" /\ "total" \notin DOMAIN jr.out)
    /\ (jr.fn = "simular_credito" /\ jr.valor <= 0)
          => (jr.out.status = 400 /\ "total_reembolsar" \notin DOMAIN jr.out)

\* C17: for a principal p > 0, calcular_total_reembolsar(p, d) returns
\* (rate, total) with rate = obter_taxa_por_meses(d) and total = p * (1 + rate)
\* when d is in the table, and raises the ValueError of the lookup, returning
\* nothing, when it is not.
C17_TotalIgualPrincipalMaisJuros ==
    (jr.fn = "calcular_total_reembolsar" /\ jr.valor > 0) =>
        IF jr.meses \in 1..6
        THEN /\ jr.out.erro = ""
             /\ jr.out.taxa = obter_taxa_por_meses(jr.meses).taxa
             /\ 100 * jr.out.total.num =
                    jr.valor * (100 + jr.out.taxa) * jr.out.total.den
        ELSE jr.out = [erro |-> "ValueError"]

C17_Witness ==
    /\ jr.fn = "calcular_total_reembolsar"
    /\ jr.valor = 33330
    /\ jr.meses = 3
    /\ round2(jr.out.total) = 43330

\* C18: calcular_prestacao_mensal(total, d) returns exactly total / d, with
\* no rounding, for every d >= 1 (in the rate table or not), and fails with
\* ValueError, not with a division fault, for every d <= 0.
C18_PrestacaoExataOuErro ==
    jr.fn = "calcular_prestacao_mensal" =>
        IF jr.meses >= 1
        THEN /\ jr.out.erro = ""
             /\ jr.out.prestacao.num * jr.meses = jr.valor * jr.out.prestacao.den
        ELSE jr.out = [erro |-> "ValueError"]

C18_Witness ==
    /\ jr.fn = "calcular_prestacao_mensal"
    /\ jr.valor = 100000
    /\ jr.meses = 7
    /\ jr.out.erro = ""
    /\ round2(jr.out.prestacao) * 7 # 100000

\* C19: calcular_data_fim / adicionar_meses returns a valid calendar date for
\* every start date and every integer number of months, negative and zero
\* included; it never loops forever.
C19_DataFimTermina ==
    jr.fn = "calcular_data_fim" =>
        /\ jr.out.erro = ""
        /\ DataValida(jr.out.data[1], jr.out.data[2], jr.out.data[3])

Min(a, b) == IF a <= b THEN a ELSE b

\* the date C20 names for start date d and k months
DataEsperada(d, k) ==
    LET mes == ((d[2] - 1 + k) % 12) + 1
        ano == d[1] + ((d[2] - 1 + k) \div 12)
    IN  <<ano, mes, Min(d[3], dias_no_mes(ano, mes))>>

C21_CenarioPontaAPonta ==
    /\ \A k \in DOMAIN creditos :
         LET c == creditos[k]
         IN  (/\ c.valor_solicitado = 100000000
              /\ c.duracao_meses = 3
              /\ c.data_inicio = <<2025, 1, 15>>) =>
                 /\ c.taxa_juros = 30
                 /\ c.valor_total_reembolsar = 130000000
                 /\ c.prestacao_mensal = 43333330
                 /\ c.data_fim = <<2025, 4, 15>>
    /\ calcular_estado(<<2025, 4, 15>>, 130000000, <<2025, 1, 15>>) = "Ativo"
    /\ (resp.op = "criar_credito" /\ resp.status = 200 /\ hoje = <<2025, 1, 15>>) =>
           LET c == creditos[ProximoId(creditos) - 1]
           IN  c.saldo_em_aberto = 130000000 /\ c.estado = "Ativo"
    /\ (resp.op = "registrar_pagamento" /\ resp.status = 200) =>
           \A k \in DOMAIN creditos :
               creditos[k].saldo_em_aberto = 0 => creditos[k].estado = "Concluido"

\* two instalments, the second posted the day after maturity, settle the loan
C21_Witness ==
    /\ resp.op = "registrar_pagamento"
    /\ resp.status = 200
    /\ hoje = <<2025, 4, 16>>
    /\ Cardinality(DOMAIN pagamentos) = 2
    /\ creditos[1].valor_total_reembolsar = 130000000
    /\ creditos[1].valor_pago = 130000000
    /\ creditos[1].saldo_em_aberto = 0
    /\ creditos[1].estado = "Concluido"

(***************************************************************************)
(* C22: a credit that has at least one payment cannot be deleted:          *)
(* apagar_credito on it answers 409 and changes nothing; so every stored   *)
(* payment references a credit that exists.                                *)
(***************************************************************************)
C22_CreditoComPagamentosNaoSeApaga ==
    /\ \A k \in DOMAIN pagamentos : pagamentos[k].id_credito \in DOMAIN creditos
    /\ \A id \in DOMAIN creditos :
         PagamentosDoCredito(pagamentos, id) # {} =>
             apagar_credito(creditos, pagamentos, id) =
                 Resultado(409, creditos, pagamentos)
    /\ (resp.op = "apagar_credito" /\ resp.status = 409) =>
           \E id \in DOMAIN creditos : PagamentosDoCredito(pagamentos, id) # {}

\* DELETE of a credit with a payment, by the admin, answered 409
C22_Witness ==
    /\ resp.op = "apagar_credito"
    /\ resp.status = 409
    /\ 1 \in DOMAIN creditos
    /\ PagamentosDoCredito(pagamentos, 1) # {}

(***************************************************************************)
(* C23: receipt numbers are unique.  No two stored payments share          *)
(* nr_comprovativo; registering a payment, or renaming one, with a number  *)
(* that another payment uses answers 409 and leaves payments and credits   *)
(* as they were; a PATCH that sends a payment its own number is accepted.  *)
(***************************************************************************)
C23_ComprovativoUnico ==
    /\ \A a, b \in DOMAIN pagamentos :
         a # b => pagamentos[a].nr_comprovativo # pagamentos[b].nr_comprovativo
    /\ \A k \in DOMAIN pagamentos, c \in DOMAIN creditos,
          v \in ValoresPagamento, at \in IdsAtendente \cup atendentes :
         registrar_pagamento(creditos, pagamentos, hoje,
             [id_credito |-> c, nr_comprovativo |-> pagamentos[k].nr_comprovativo,
              valor_pago_no_dia |-> v, id_atendente |-> at]) =
           Resultado(409, creditos, pagamentos)
    /\ \A k \in DOMAIN pagamentos, j \in DOMAIN pagamentos, data \in DadosPagamento :
         (/\ j # k
          /\ "nr_comprovativo" \in DOMAIN data
          /\ data["nr_comprovativo"] = pagamentos[j].nr_comprovativo) =>
           atualizar_pagamento(creditos, pagamentos, hoje, k, data) =
               Resultado(409, creditos, pagamentos)
    /\ \A k \in DOMAIN pagamentos :
         atualizar_pagamento(creditos, pagamentos, hoje, k,
             [f \in {"nr_comprovativo"} |-> pagamentos[k].nr_comprovativo]) =
           Resultado(200, creditos, pagamentos)

\* a PATCH that renames the second payment to the first one's number: 409
C23_Witness ==
    /\ resp.op = "atualizar_pagamento"
    /\ resp.status = 409
    /\ Cardinality(DOMAIN pagamentos) = 2
    /\ \A a, b \in DOMAIN pagamentos :
         a # b => pagamentos[a].nr_comprovativo # pagamentos[b].nr_comprovativo

(***************************************************************************)
(* C24: role gating of the writes.  criar_credito, atualizar_credito,      *)
(* registrar_pagamento and atualizar_pagamento take effect only for a      *)
(* caller whose token is valid and names an active user with role admin or *)
(* gestor, apagar_credito only for an active admin; any other caller (no   *)
(* token, invalid token, inactive user, leitor) is answered 401 or 403 and *)
(* no credit or payment changes.                                           *)
(***************************************************************************)
EscritasComPapel ==
    {"criar_credito", "atualizar_credito", "registrar_pagamento",
     "atualizar_pagamento", "apagar_credito"}

\* the role the caller's token stands for, "" when it stands for none
PapelDoChamador ==
    IF token.tipo = "jwt" /\ token.sub \in DOMAIN users /\ users[token.sub].is_active
    THEN users[token.sub].role
    ELSE ""

PapeisAdmitidos(op) ==
    IF op = "apagar_credito" THEN {"admin"} ELSE {"admin", "gestor"}

C24_EscritasSoComPapel ==
    [][resp'.op \in EscritasComPapel =>
         IF PapelDoChamador \in PapeisAdmitidos(resp'.op)
         THEN resp'.status \notin {401, 403}
         ELSE /\ resp'.status = IF token.tipo = "jwt" THEN 403 ELSE 401
              /\ creditos' = creditos
              /\ pagamentos' = pagamentos]_vars

\* a leitor's payment refused with 403, the credit untouched
C24_Witness ==
    /\ resp.op = "registrar_pagamento"
    /\ resp.status = 403
    /\ token.tipo = "jwt"
    /\ users[token.sub].role = "leitor"
    /\ users[token.sub].is_active
    /\ 1 \in DOMAIN creditos
    /\ creditos[1].valor_pago = 0
    /\ pagamentos = <<>>

(***************************************************************************)
(* C25: no ledger mutation without authorization.  A request of a caller   *)
(* who holds no valid token of an active admin or gestor creates, changes  *)
(* or deletes no payment row and changes no credit's valor_pago or         *)
(* saldo_em_aberto.                                                        *)
(***************************************************************************)
C25_SemPapelNadaMuda ==
    [][PapelDoChamador \notin {"admin", "gestor"} =>
         /\ pagamentos' = pagamentos
         /\ DOMAIN creditos' = DOMAIN creditos
         /\ \A k \in DOMAIN creditos :
              /\ creditos'[k].valor_pago = creditos[k].valor_pago
              /\ creditos'[k].saldo_em_aberto = creditos[k].saldo_em_aberto]_vars

(***************************************************************************)
(* C26: deactivation takes effect immediately.  While a user's is_active   *)
(* is false, authenticate_user returns no user for it even with the right  *)
(* password (POST /token answers 401 and issues nothing), and every        *)
(* role-protected operation attempted with a token issued to that user     *)
(* earlier is answered 403 and changes nothing.                            *)
(***************************************************************************)
C26_DesativadoFicaDeFora ==
    [][/\ \A u \in DOMAIN users : ~users[u].is_active =>
            \A password \in Senhas : ~authenticate_user(users, u, password).ok
       /\ (resp'.op = "login" /\ ~users[resp'.out].is_active) =>
              resp'.status = 401 /\ token' = token
       /\ (/\ resp'.op \in EscritasComPapel
           /\ token.tipo = "jwt"
           /\ ~users[token.sub].is_active) =>
              /\ resp'.status = 403
              /\ creditos' = creditos
              /\ pagamentos' = pagamentos]_vars

\* the gestor, deactivated after logging in, is refused a payment with 403
C26_Witness ==
    /\ resp.op = "registrar_pagamento"
    /\ resp.status = 403
    /\ token = create_access_token("gestor1")
    /\ ~users["gestor1"].is_active
    /\ 1 \in DOMAIN creditos
    /\ pagamentos = <<>>

(***************************************************************************)
(* C27: atualizar_credito with a body that has none of valor_solicitado,   *)
(* duracao_meses and data_inicio leaves taxa_juros, valor_total_reembolsar,*)
(* prestacao_mensal, data_fim, valor_pago and saldo_em_aberto as they      *)
(* were: it sets the descriptive fields it was given and refreshes estado  *)
(* from the stored data_fim and saldo_em_aberto, and that is all.          *)
(***************************************************************************)
DadosDescritivos ==
    {[k \in S |-> v] : S \in SUBSET {"comentario"}, v \in {"", "revisto", "em atraso"}}

C27_SemTermosSoEstado ==
    /\ \A id \in DOMAIN creditos, data \in DadosDescritivos :
         LET c == creditos[id]
             depois ==
                 [f \in DOMAIN c |->
                     IF f \in DOMAIN data THEN data[f]
                     ELSE IF f = "estado"
                          THEN calcular_estado(c.data_fim, c.saldo_em_aberto, hoje)
                     ELSE c[f]]
         IN  atualizar_credito(creditos, pagamentos, hoje, id, data) =
                 Resultado(200, [creditos EXCEPT ![id] = depois], pagamentos)
    /\ (resp.op = "atualizar_credito" /\ resp.status = 200 /\ resp.out = FALSE) =>
           creditos[1].estado =
               calcular_estado(creditos[1].data_fim, creditos[1].saldo_em_aberto, hoje)

\* a comment written the day after maturity on a loan with one instalment paid:
\* the stored "Ativo" becomes "Devedor", the amounts stay
C27_Witness ==
    /\ resp.op = "atualizar_credito"
    /\ resp.status = 200
    /\ resp.out = FALSE
    /\ hoje = <<2025, 4, 16>>
    /\ creditos[1].comentario = "revisto"
    /\ creditos[1].valor_pago = 43333330
    /\ creditos[1].saldo_em_aberto = 86666670
    /\ creditos[1].data_fim = <<2025, 4, 15>>
    /\ creditos[1].estado = "Devedor"

(***************************************************************************)
(* C28: atualizar_credito that changes valor_solicitado, duracao_meses or  *)
(* data_inicio of a credit keeps valor_pago and every payment row,         *)
(* recomputes rate, total, instalment and maturity from the new terms,     *)
(* sets saldo_em_aberto = max(0, new total - valor_pago), and sets estado  *)
(* to "Concluido" when the amount paid covers the new total.               *)
(***************************************************************************)
C28_MudancaDeTermos ==
    [][(resp'.op = "atualizar_credito" /\ resp'.status = 200 /\ resp'.out = TRUE) =>
         /\ pagamentos' = pagamentos
         /\ DOMAIN creditos' = DOMAIN creditos
         /\ \A k \in DOMAIN creditos :
              LET c == creditos'[k]
                  pl == Plano(c.valor_solicitado, c.duracao_meses, c.data_inicio)
              IN  c # creditos[k] =>
                    /\ c.valor_pago = creditos[k].valor_pago
                    /\ c.taxa_juros = pl.taxa
                    /\ c.valor_total_reembolsar = round2(pl.total)
                    /\ c.prestacao_mensal = round2(pl.prestacao)
                    /\ c.data_fim = pl.data_fim
                    /\ c.saldo_em_aberto =
                           Max(0, c.valor_total_reembolsar - c.valor_pago)
                    /\ (c.valor_pago >= c.valor_total_reembolsar =>
                           c.estado = "Concluido")]_vars

\* C28 with the balance as the code computes it, round(total - valor_pago, 2)
\* floored at zero: what holds of every change of terms
C28_MudancaDeTermosArredondada ==
    [][(resp'.op = "atualizar_credito" /\ resp'.status = 200 /\ resp'.out = TRUE) =>
         /\ pagamentos' = pagamentos
         /\ DOMAIN creditos' = DOMAIN creditos
         /\ \A k \in DOMAIN creditos :
              LET c == creditos'[k]
                  pl == Plano(c.valor_solicitado, c.duracao_meses, c.data_inicio)
              IN  c # creditos[k] =>
                    /\ c.valor_pago = creditos[k].valor_pago
                    /\ c.taxa_juros = pl.taxa
                    /\ c.valor_total_reembolsar = round2(pl.total)
                    /\ c.prestacao_mensal = round2(pl.prestacao)
                    /\ c.data_fim = pl.data_fim
                    /\ c.saldo_em_aberto =
                           Max(0, R2(c.valor_total_reembolsar - c.valor_pago))
                    /\ (c.valor_pago >= c.valor_total_reembolsar =>
                           c.estado = "Concluido")]_vars

(***************************************************************************)
(* C29: overpayment and reversal.  A payment larger than the outstanding   *)
(* balance is accepted and leaves saldo_em_aberto = 0, estado "Concluido"  *)
(* and valor_pago greater than the total repayable; and "Concluido" is not *)
(* final: when a deletion of a payment leaves valor_pago below the total,  *)
(* the credit is "Ativo" or "Devedor" again with                           *)
(* saldo_em_aberto = total - valor_pago.                                   *)
(***************************************************************************)
C29_PagamentoAMaisEReversao ==
    [][/\ (resp'.op = "registrar_pagamento" /\ resp'.status = 200) =>
            LET k == pagamentos'[ProximoId(pagamentos)].id_credito
            IN  resp'.out > creditos[k].saldo_em_aberto =>
                  /\ creditos'[k].saldo_em_aberto = 0
                  /\ creditos'[k].estado = "Concluido"
                  /\ creditos'[k].valor_pago > creditos'[k].valor_total_reembolsar
       /\ (resp'.op = "apagar_pagamento" /\ resp'.status = 200) =>
            \A p \in DOMAIN pagamentos \ DOMAIN pagamentos' :
              LET c == creditos'[pagamentos[p].id_credito]
              IN  c.valor_pago < c.valor_total_reembolsar =>
                    /\ c.estado \in {"Ativo", "Devedor"}
                    /\ c.saldo_em_aberto = c.valor_total_reembolsar - c.valor_pago]_vars

\* C29 with "not less than" for "greater than": what holds of every payment
\* larger than the balance and of every deletion
C29_PagamentoAMaisCobreOTotal ==
    [][/\ (resp'.op = "registrar_pagamento" /\ resp'.status = 200) =>
            LET k == pagamentos'[ProximoId(pagamentos)].id_credito
            IN  resp'.out > creditos[k].saldo_em_aberto =>
                  /\ creditos'[k].saldo_em_aberto = 0
                  /\ creditos'[k].estado = "Concluido"
                  /\ creditos'[k].valor_pago >= creditos'[k].valor_total_reembolsar
       /\ (resp'.op = "apagar_pagamento" /\ resp'.status = 200) =>
            \A p \in DOMAIN pagamentos \ DOMAIN pagamentos' :
              LET c == creditos'[pagamentos[p].id_credito]
              IN  c.valor_pago < c.valor_total_reembolsar =>
                    /\ c.estado \in {"Ativo", "Devedor"}
                    /\ c.saldo_em_aberto = c.valor_total_reembolsar - c.valor_pago]_vars

(***************************************************************************)
(* C30: a rejected payment operation changes nothing.  When                *)
(* registrar_pagamento fails (credit not found, amount not positive,       *)
(* receipt number in use, attendant not found) or atualizar_pagamento      *)
(* fails (payment not found, receipt number in use, attendant not found),  *)
(* the payment rows and every credit's valor_pago, saldo_em_aberto and     *)
(* estado are those of before the request.                                 *)
(***************************************************************************)
CorposDePagamento ==
    [id_credito : 1..(MaxCreditos + 1),
     nr_comprovativo : Comprovativos,
     valor_pago_no_dia : ValoresPagamento \cup ValoresPagamentoInvalidos \cup {-1},
     id_atendente : IdsAtendente \cup atendentes]

RecusaDePagamentoDevolveTabelas ==
    /\ \A payload \in CorposDePagamento :
         LET r == registrar_pagamento(creditos, pagamentos, hoje, payload)
         IN  /\ r.status # 200 => r = Resultado(r.status, creditos, pagamentos)
             /\ payload.id_credito \notin DOMAIN creditos => r.status = 404
             /\ (payload.id_credito \in DOMAIN creditos
                     /\ payload.valor_pago_no_dia <= 0) => r.status = 400
             /\ (payload.id_atendente # Nenhum
                     /\ payload.id_atendente \notin atendentes) => r.status # 200
    /\ \A id \in 1..(MaxPagamentos + 1), data \in DadosPagamento :
         LET r == atualizar_pagamento(creditos, pagamentos, hoje, id, data)
         IN  PagamentoUpdateValido(data) =>
               /\ r.status # 200 => r = Resultado(r.status, creditos, pagamentos)
               /\ id \notin DOMAIN pagamentos => r.status = 404
               /\ ("id_atendente" \in DOMAIN data
                       /\ data["id_atendente"] \notin atendentes \cup {Nenhum}) =>
                     r.status # 200

C30_RecusaDePagamentoNadaMuda ==
    /\ []RecusaDePagamentoDevolveTabelas
    /\ [][(resp'.op \in {"registrar_pagamento", "atualizar_pagamento"}
              /\ resp'.status # 200) =>
            /\ pagamentos' = pagamentos
            /\ creditos' = creditos]_vars

\* a payment for an existing credit refused with 404 for its unknown attendant,
\* with a payment already stored
C30_Witness ==
    /\ resp.op = "registrar_pagamento"
    /\ resp.status = 404
    /\ resp.out > 0
    /\ 1 \in DOMAIN creditos
    /\ Cardinality(DOMAIN pagamentos) = 1
    /\ creditos[1].valor_pago > 0

====
